---- MODULE Spec2Model ----
(***************************************************************************)
(* Model of the bitfield distribution subsystem                            *)
(* (node/network/bitfield-distribution/src/lib.rs).                        *)
(*                                                                         *)
(* The subsystem is one actor: BitfieldDistribution::run owns a Tracker    *)
(* and handles one event of the overseer at a time.  Every action below is *)
(* one iteration of the loop of run: the whole handler of one event, with  *)
(* every message it puts on the bus recorded, in emission order, in out.   *)
(***************************************************************************)
EXTENDS Integers, Sequences, FiniteSets, TLC

(***************************************************************************)
(* Bounds of the model.                                                    *)
(***************************************************************************)
\* validator indices carried by signed bitfields range over 0..MaxIndex
MaxIndex == 2
\* availability bitfields (payloads) range over 0..MaxPayload
MaxPayload == 1

Hashes == {"H0", "H1"}
PeerIds == {"P1", "P2"}
ValidatorIds == {"V0", "V1"}
\* keys that can sign: the validators and a key outside every validator set
Keys == ValidatorIds \cup {"VX"}
Payloads == 0..MaxPayload
Indices == 0..MaxIndex
Views == SUBSET Hashes

\* the chain: the validator set at each relay parent
Chain == [h \in Hashes |-> IF h = "H0" THEN <<"V0", "V1">> ELSE << >>]

\* the signing context the runtime API answers with for a relay parent
SigningContextOf(h) == [session_index |-> 1, parent_hash |-> h]
SigningContexts == {SigningContextOf(h) : h \in Hashes}

(***************************************************************************)
(* Reputation changes.                                                     *)
(***************************************************************************)
COST_SIGNATURE_INVALID == [value |-> -100, reason |-> "Bitfield signature invalid"]
COST_VALIDATOR_INDEX_INVALID == [value |-> -100, reason |-> "Bitfield validator index invalid"]
COST_MISSING_PEER_SESSION_KEY == [value |-> -133, reason |-> "Missing peer session key"]
COST_NOT_INTERESTED == [value |-> -51, reason |-> "Not intersted in that parent hash"]
COST_MESSAGE_NOT_DECODABLE == [value |-> -100, reason |-> "Not intersted in that parent hash"]
GAIN_VALID_MESSAGE_FIRST == [value |-> 15, reason |-> "Valid message with new information"]
GAIN_VALID_MESSAGE == [value |-> 5, reason |-> "Valid message"]

PROTOCOL_ID == "bitd"

(***************************************************************************)
(* Signed bitfields and gossip messages.                                   *)
(***************************************************************************)
\* a signed availability bitfield: the payload, the validator index it
\* claims, and the signature, which is the key and the context it was made with
SignedAvailabilityBitfield ==
  [validator_index : Indices, payload : Payloads, signer : Keys, signed_ctx : SigningContexts]

BitfieldGossipMessage ==
  [relay_parent : Hashes, signed_availability : SignedAvailabilityBitfield]

validator_index(signed) == signed.validator_index

check_signature(signed, signing_context, validator) ==
  /\ signed.signer = validator
  /\ signed.signed_ctx = signing_context

\* the encoding of a struct is the concatenation of the encodings of its fields
Encode(m) ==
  << m.relay_parent,
     m.signed_availability.payload,
     m.signed_availability.validator_index,
     m.signed_availability.signer,
     m.signed_availability.signed_ctx >>

NoMessage == [none |-> TRUE]

\* decoding reads the fields off the front of the input and fails when one
\* of them is missing or malformed; it does not look at what follows
Decode(bytes) ==
  IF /\ Len(bytes) >= 5
     /\ bytes[1] \in Hashes
     /\ bytes[2] \in Payloads
     /\ bytes[3] \in Indices
     /\ bytes[4] \in Keys
     /\ bytes[5] \in SigningContexts
  THEN [relay_parent |-> bytes[1],
        signed_availability |->
          [validator_index |-> bytes[3], payload |-> bytes[2],
           signer |-> bytes[4], signed_ctx |-> bytes[5]]]
  ELSE NoMessage

(***************************************************************************)
(* Messages the subsystem puts on the bus.                                 *)
(***************************************************************************)
ProvisionableData(relay_parent, signed) ==
  [kind |-> "Bitfield", relay_parent |-> relay_parent, signed |-> signed]
SendMessage(peers, protocol, bytes) ==
  [kind |-> "SendMessage", peers |-> peers, protocol |-> protocol, bytes |-> bytes]
ReportPeer(peer, rep) ==
  [kind |-> "ReportPeer", peer |-> peer, rep |-> rep]

RegisterEventProducer(protocol) ==
  [kind |-> "RegisterEventProducer", protocol |-> protocol]
RuntimeApiRequest(relay_parent, request) ==
  [kind |-> "RuntimeApiRequest", relay_parent |-> relay_parent, request |-> request]

modify_reputation(peer, rep) == << ReportPeer(peer, rep) >>

(***************************************************************************)
(* The state.                                                              *)
(***************************************************************************)
VARIABLES
  validators_at,\* the runtime: the validator set at each relay parent
  tracker,      \* the Tracker of run: peer_views, view, per_relay_parent
  pc,           \* where run is: "running", "concluded" (returned Ok), "failed"
                \* (returned Err), "panicked"
  out,          \* the messages emitted while handling the last event, in order
  sent_log,     \* history: <<peer, relay parent, signer>> of every SendMessage
                \* since the per_relay_parent entry of the relay parent was created
  delivered,    \* history: <<relay parent, signer>> handed to the provisioner
                \* since the per_relay_parent entry of the relay parent was created
  event         \* history: the event handled last, NoEvent once run is back
                \* at ctx.recv()

vars == << validators_at, tracker, pc, out, sent_log, delivered, event >>

EmptyMap == [x \in {} |-> {}]

\* Tracker::default()
TrackerDefault ==
  [peer_views |-> EmptyMap, view |-> {}, per_relay_parent |-> EmptyMap]

\* PerRelayParentData { signing_context, validator_set, ..Default::default() }
PerRelayParentData(signing_context, validator_set) ==
  [signing_context |-> signing_context,
   validator_set |-> validator_set,
   one_per_validator |-> EmptyMap,
   message_sent_to_peer |-> EmptyMap]

\* map.insert(k, v)
Insert(map, k, v) == [x \in DOMAIN map \cup {k} |-> IF x = k THEN v ELSE map[x]]
\* map.remove(k) as it would be if nothing were removed
Remove_kept(map, k) == map

\* map.remove(k)
Remove(map, k) == [x \in DOMAIN map \ {k} |-> map[x]]
\* map.entry(k).or_default().insert(v), for a map of sets
InsertInto(map, k, v) ==
  Insert(map, k, (IF k \in DOMAIN map THEN map[k] ELSE {}) \cup {v})

\* message_from_validator_needed_by_peer as it would be if it looked only
\* for the sent-set of the peer
message_from_validator_needed_by_peer_any(job_data, peer, validator) ==
  peer \in DOMAIN job_data.message_sent_to_peer

\* true iff the peer has a sent-set and the validator is not in it
message_from_validator_needed_by_peer(job_data, peer, validator) ==
  IF peer \in DOMAIN job_data.message_sent_to_peer
  THEN validator \notin job_data.message_sent_to_peer[peer]
  ELSE FALSE


(***************************************************************************)
(* relay_message: hand the bitfield to the provisioner, select the peers   *)
(* whose view contains the relay parent, track the message as sent to them *)
(* and send it to them in one SendMessage.                                 *)
(***************************************************************************)
\* relay_message as it would be if every known peer were taken as interested
relay_message_all_peers(job_data, peer_views, validator, message) ==
  LET interested_peers == DOMAIN peer_views
      sent == job_data.message_sent_to_peer
      message_sent_to_peer ==
        [peer \in DOMAIN sent \cup interested_peers |->
           IF peer \in interested_peers
           THEN (IF peer \in DOMAIN sent THEN sent[peer] ELSE {}) \cup {validator}
           ELSE sent[peer]]
  IN [job_data |-> [job_data EXCEPT !.message_sent_to_peer = message_sent_to_peer],
      out |-> << ProvisionableData(message.relay_parent, message.signed_availability),
                 SendMessage(interested_peers, PROTOCOL_ID, Encode(message)) >>]

\* relay_message as it would be with the fan-out before the provisioner
relay_message_send_first(job_data, peer_views, validator, message) ==
  LET interested_peers ==
        {peer \in DOMAIN peer_views : message.relay_parent \in peer_views[peer]}
      sent == job_data.message_sent_to_peer
      message_sent_to_peer ==
        [peer \in DOMAIN sent \cup interested_peers |->
           IF peer \in interested_peers
           THEN (IF peer \in DOMAIN sent THEN sent[peer] ELSE {}) \cup {validator}
           ELSE sent[peer]]
  IN [job_data |-> [job_data EXCEPT !.message_sent_to_peer = message_sent_to_peer],
      out |-> << SendMessage(interested_peers, PROTOCOL_ID, Encode(message)),
                 ProvisionableData(message.relay_parent, message.signed_availability) >>]

relay_message(job_data, peer_views, validator, message) ==
  LET interested_peers ==
        {peer \in DOMAIN peer_views : message.relay_parent \in peer_views[peer]}
      sent == job_data.message_sent_to_peer
      message_sent_to_peer ==
        [peer \in DOMAIN sent \cup interested_peers |->
           IF peer \in interested_peers
           THEN (IF peer \in DOMAIN sent THEN sent[peer] ELSE {}) \cup {validator}
           ELSE sent[peer]]
  IN [job_data |-> [job_data EXCEPT !.message_sent_to_peer = message_sent_to_peer],
      out |-> << ProvisionableData(message.relay_parent, message.signed_availability),
                 SendMessage(interested_peers, PROTOCOL_ID, Encode(message)) >>]

(***************************************************************************)
(* process_incoming_peer_message: the checks on a decoded message of a     *)
(* peer, in the order of the code.  The result is the tracker afterwards   *)
(* and the messages emitted.                                               *)
(***************************************************************************)
NoValidator == "None"

\* validator_at as it would be with the index dropped
validator_at_first(validator_set, index) ==
  IF index < Len(validator_set) THEN validator_set[1] ELSE NoValidator

\* validator_set.get(index): the vector is indexed from 0
validator_at(validator_set, index) ==
  IF index < Len(validator_set) THEN validator_set[index + 1] ELSE NoValidator

\* message.signed_availability.check_signature(&signing_context, &validator).is_ok()
signature_ok(job_data, validator, message) ==
  check_signature(message.signed_availability, job_data.signing_context, validator)

\* already_received as it would be if it looked in message_sent_to_peer
already_received_sent(job_data, validator) ==
  \E peer \in DOMAIN job_data.message_sent_to_peer :
    validator \in job_data.message_sent_to_peer[peer]

\* already_received as it would be without the lookup
already_received_never(job_data, validator) == FALSE

\* one_per_validator.get(&validator).is_some()
already_received(job_data, validator) ==
  validator \in DOMAIN job_data.one_per_validator

\* accept_message as it would be without the reputation report
accept_message_unrewarded(tr, job_data, origin, validator, message) ==
  LET stored == [job_data EXCEPT !.one_per_validator =
                   Insert(job_data.one_per_validator, validator, message)]
      relayed == relay_message(stored, tr.peer_views, validator, message)
  IN [tracker |-> [tr EXCEPT !.per_relay_parent =
                     Insert(tr.per_relay_parent, message.relay_parent, relayed.job_data)],
      out |-> relayed.out]

\* accept_message as it would be if the fan-out left out the peer the
\* message came from
accept_message_excluding_origin(tr, job_data, origin, validator, message) ==
  LET stored == [job_data EXCEPT !.one_per_validator =
                   Insert(job_data.one_per_validator, validator, message)]
      relayed == relay_message(stored, Remove(tr.peer_views, origin), validator, message)
  IN [tracker |-> [tr EXCEPT !.per_relay_parent =
                     Insert(tr.per_relay_parent, message.relay_parent, relayed.job_data)],
      out |-> relayed.out \o modify_reputation(origin, GAIN_VALID_MESSAGE)]

\* the message is new and valid: store it, relay it, reward the peer
accept_message(tr, job_data, origin, validator, message) ==
  LET stored == [job_data EXCEPT !.one_per_validator =
                   Insert(job_data.one_per_validator, validator, message)]
      relayed == relay_message(stored, tr.peer_views, validator, message)
  IN [tracker |-> [tr EXCEPT !.per_relay_parent =
                     Insert(tr.per_relay_parent, message.relay_parent, relayed.job_data)],
      out |-> relayed.out \o modify_reputation(origin, GAIN_VALID_MESSAGE)]

process_incoming_peer_message(tr, origin, message) ==
  IF message.relay_parent \notin tr.view
  THEN [tracker |-> tr, out |-> modify_reputation(origin, COST_NOT_INTERESTED)]
  ELSE IF message.relay_parent \notin DOMAIN tr.per_relay_parent
  THEN [tracker |-> tr, out |-> modify_reputation(origin, COST_NOT_INTERESTED)]
  ELSE
    LET job_data == tr.per_relay_parent[message.relay_parent]
        validator_set == job_data.validator_set
        validator == validator_at(validator_set, validator_index(message.signed_availability))
    IN IF Len(validator_set) = 0
       THEN [tracker |-> tr, out |-> modify_reputation(origin, COST_MISSING_PEER_SESSION_KEY)]
       ELSE IF validator = NoValidator
       THEN [tracker |-> tr, out |-> modify_reputation(origin, COST_VALIDATOR_INDEX_INVALID)]
       ELSE IF signature_ok(job_data, validator, message)
       THEN IF already_received(job_data, validator)
            THEN [tracker |-> tr, out |-> << >>]
            ELSE accept_message(tr, job_data, origin, validator, message)
       ELSE [tracker |-> tr, out |-> modify_reputation(origin, COST_SIGNATURE_INVALID)]

(***************************************************************************)
(* send_tracked_gossip_message and catch_up_messages.                      *)
(***************************************************************************)
\* send_tracked_gossip_message as it would be if it tracked without sending
send_tracked_gossip_message_unsent(tr, dest, validator, message) ==
  IF message.relay_parent \notin DOMAIN tr.per_relay_parent
  THEN [tracker |-> tr, out |-> << >>]
  ELSE
    LET job_data == tr.per_relay_parent[message.relay_parent]
        tracked == [job_data EXCEPT !.message_sent_to_peer =
                      InsertInto(job_data.message_sent_to_peer, dest, validator)]
    IN [tracker |-> [tr EXCEPT !.per_relay_parent =
                       Insert(tr.per_relay_parent, message.relay_parent, tracked)],
        out |-> << >>]

send_tracked_gossip_message(tr, dest, validator, message) ==
  IF message.relay_parent \notin DOMAIN tr.per_relay_parent
  THEN [tracker |-> tr, out |-> << >>]
  ELSE
    LET job_data == tr.per_relay_parent[message.relay_parent]
        tracked == [job_data EXCEPT !.message_sent_to_peer =
                      InsertInto(job_data.message_sent_to_peer, dest, validator)]
    IN [tracker |-> [tr EXCEPT !.per_relay_parent =
                       Insert(tr.per_relay_parent, message.relay_parent, tracked)],
        out |-> << SendMessage({dest}, PROTOCOL_ID, Encode(message)) >>]

\* the relay parents of the delta that hold a message of the validator which
\* the peer needs
CatchUpSources(tr, origin, delta, validator) ==
  {h \in delta \cap DOMAIN tr.per_relay_parent :
     /\ validator \in DOMAIN tr.per_relay_parent[h].one_per_validator
     /\ message_from_validator_needed_by_peer(tr.per_relay_parent[h], origin, validator)}

\* the loop over delta_set, in the order the map yields its entries
RECURSIVE SendAll(_, _, _, _)
SendAll(tr, origin, delta_set, order) ==
  IF order = << >>
  THEN [tracker |-> tr, out |-> << >>]
  ELSE
    LET validator == Head(order)
        first == send_tracked_gossip_message(tr, origin, validator, delta_set[validator])
        rest == SendAll(first.tracker, origin, delta_set, Tail(order))
    IN [tracker |-> rest.tracker, out |-> first.out \o rest.out]

\* the orders in which a map with the keys S can yield them
Orders(S) ==
  {order \in [1..Cardinality(S) -> S] : \A v \in S : \E i \in DOMAIN order : order[i] = v}

\* ViewDelta as it would be if it were what the new view adds
ViewDelta_gained(current, view) == view \ current

\* the peer's view minus the new view
ViewDelta(current, view) == current \ view

\* the outcomes of catch_up_messages.  Collecting into delta_set keeps one
\* message per validator; which relay parent's message that is depends on
\* the order of the hashes in the peer's view, and the order of the sends on
\* the order the map yields its entries: source and order range over both.
CatchUpOutcomes(tr, origin, view) ==
  LET current == IF origin \in DOMAIN tr.peer_views THEN tr.peer_views[origin] ELSE {}
      delta == ViewDelta(current, view)
      replaced == [tr EXCEPT !.peer_views = Insert(tr.peer_views, origin, view)]
      validators == {v \in ValidatorIds : CatchUpSources(tr, origin, delta, v) # {}}
  IN { SendAll(replaced, origin,
               [v \in validators |-> tr.per_relay_parent[source[v]].one_per_validator[v]],
               order) :
         source \in {s \in [validators -> Hashes] :
                       \A v \in validators : s[v] \in CatchUpSources(tr, origin, delta, v)},
         order \in Orders(validators) }


(***************************************************************************)
(* The inputs.                                                             *)
(***************************************************************************)
\* inputs that do not decode: nothing, and a message cut short
Undecodable == {<< >>, <<"H0">>}

\* a bitfield signed with key in the signing context of relay parent ctx_of
Signed(index, payload, key, ctx_of) ==
  [validator_index |-> index, payload |-> payload, signer |-> key,
   signed_ctx |-> SigningContextOf(ctx_of)]

\* the messages peers send: a bitfield with any index and any key, signed in
\* the context of the relay parent the message names; every bitfield of
\* validator 0; and bitfields signed for one relay parent and sent for another
WireMessages ==
  {[relay_parent |-> h, signed_availability |-> Signed(i, 0, k, h)] :
     h \in Hashes, i \in Indices, k \in Keys}
  \cup
  {[relay_parent |-> h, signed_availability |-> Signed(0, b, "V0", h)] :
     h \in Hashes, b \in Payloads}
  \cup
  {[relay_parent |-> h, signed_availability |-> Signed(0, 0, "V0", g)] :
     h \in Hashes, g \in Hashes}

\* an encoded message followed by something else
Trailing ==
  {Encode([relay_parent |-> "H0", signed_availability |-> Signed(0, 0, "V0", "H0")])
     \o <<"junk">>}

\* what a peer can send
WireBytes == {Encode(m) : m \in WireMessages} \cup Undecodable \cup Trailing

(***************************************************************************)
(* History.                                                                *)
(***************************************************************************)
Range(seq) == {seq[i] : i \in DOMAIN seq}
SendsIn(o) == {x \in Range(o) : x.kind = "SendMessage"}
DeliveriesIn(o) == {x \in Range(o) : x.kind = "Bitfield"}
ReportsIn(o) == {x \in Range(o) : x.kind = "ReportPeer"}

\* <<peer, relay parent, signer>> of one SendMessage
TriplesOf(x) ==
  {<<p, Decode(x.bytes).relay_parent, Decode(x.bytes).signed_availability.signer>> :
     p \in x.peers}
\* <<peer, relay parent, signer>> of the sends of o
SendTriples(o) == UNION {TriplesOf(x) : x \in SendsIn(o)}
\* <<relay parent, signer>> of the provisioner deliveries of o
DeliveryPairs(o) == {<<x.relay_parent, x.signed.signer>> : x \in DeliveriesIn(o)}

\* the logs without what they hold of a relay parent
Forget(log, k, relay_parent) == {e \in log : e[k] # relay_parent}

NoEvent == [kind |-> "None"]

\* run is at ctx.recv() and the bus has taken the messages of the event before
Quiet == event = NoEvent

\* the event e was handled: it left the tracker as tr and emitted o
Handled(e, tr, o) ==
  /\ event' = e
  /\ tracker' = tr
  /\ out' = o
  /\ UNCHANGED validators_at

Logged(o) ==
  /\ sent_log' = sent_log \cup SendTriples(o)
  /\ delivered' = delivered \cup DeliveryPairs(o)

\* the start of run: the protocol is registered with the bridge and the
\* Tracker is the default one
Startup == [kind |-> "Startup"]

Init ==
  /\ validators_at = Chain
  /\ tracker = TrackerDefault
  /\ pc = "running"
  /\ out = << RegisterEventProducer(PROTOCOL_ID) >>
  /\ sent_log = {}
  /\ delivered = {}
  /\ event = Startup

(***************************************************************************)
(* The events of run.                                                      *)
(***************************************************************************)
\* the loop of run is back at ctx.recv(): the messages of the event before
\* are with the bus
Recv ==
  /\ pc = "running"
  /\ ~Quiet
  /\ out' = << >>
  /\ event' = NoEvent
  /\ UNCHANGED << validators_at, tracker, pc, sent_log, delivered >>

\* query_basics: the two requests to the runtime API, and the validator set
\* and the signing context of the relay parent it answers with
query_basics(relay_parent) ==
  [validator_set |-> validators_at[relay_parent],
   signing_context |-> SigningContextOf(relay_parent),
   out |-> << RuntimeApiRequest(relay_parent, "Validators"),
              RuntimeApiRequest(relay_parent, "SigningContext") >>]

\* FromOverseer::Signal(OverseerSignal::StartWork(relay_parent))
StartWork(relay_parent) ==
  /\ pc = "running" /\ Quiet
  /\ LET basics == query_basics(relay_parent)
     IN Handled([kind |-> "StartWork", relay_parent |-> relay_parent],
                [tracker EXCEPT !.per_relay_parent =
                   Insert(tracker.per_relay_parent, relay_parent,
                          PerRelayParentData(basics.signing_context, basics.validator_set))],
                basics.out)
  /\ sent_log' = Forget(sent_log, 2, relay_parent)
  /\ delivered' = Forget(delivered, 1, relay_parent)
  /\ UNCHANGED pc

\* FromOverseer::Signal(OverseerSignal::StopWork(relay_parent))
StopWork(relay_parent) ==
  /\ pc = "running" /\ Quiet
  /\ Handled([kind |-> "StopWork", relay_parent |-> relay_parent],
             [tracker EXCEPT !.per_relay_parent =
                Remove(tracker.per_relay_parent, relay_parent)], << >>)
  /\ sent_log' = Forget(sent_log, 2, relay_parent)
  /\ delivered' = Forget(delivered, 1, relay_parent)
  /\ UNCHANGED pc

\* clear_work as it would be without the clear
clear_work_kept(tr) == tr

\* tracker.per_relay_parent.clear()
clear_work(tr) == [tr EXCEPT !.per_relay_parent = EmptyMap]

\* FromOverseer::Signal(OverseerSignal::Conclude)
Conclude ==
  /\ pc = "running" /\ Quiet
  /\ Handled([kind |-> "Conclude"], clear_work(tracker), << >>)
  /\ pc' = "concluded"
  /\ sent_log' = {}
  /\ delivered' = {}

\* the bitfield the local validator signed: with the key at its index, in the
\* signing context of the relay parent
LocalSigned(relay_parent, index, payload) ==
  LET validator_set == validators_at[relay_parent]
  IN Signed(index, payload,
            IF index < Len(validator_set) THEN validator_set[index + 1] ELSE "V0",
            relay_parent)

DistributeBitfieldEvent(hash, signed_availability) ==
  [kind |-> "DistributeBitfield", hash |-> hash, signed_availability |-> signed_availability]

\* BitfieldDistributionMessage::DistributeBitfield(hash, signed_availability)
DistributeBitfield(hash, signed_availability) ==
  /\ pc = "running" /\ Quiet
  /\ IF hash \notin DOMAIN tracker.per_relay_parent
     THEN \* expect("Overseer does not send work items ...") panics
          /\ pc' = "panicked"
          /\ Handled(DistributeBitfieldEvent(hash, signed_availability), tracker, << >>)
          /\ Logged(<< >>)
     ELSE
       LET job_data == tracker.per_relay_parent[hash]
           validator == validator_at(job_data.validator_set,
                                     validator_index(signed_availability))
       IN IF validator = NoValidator
          THEN \* expect("Our own validation index exists. qed") panics
               /\ pc' = "panicked"
               /\ Handled(DistributeBitfieldEvent(hash, signed_availability), tracker, << >>)
               /\ Logged(<< >>)
          ELSE
            LET msg == [relay_parent |-> hash, signed_availability |-> signed_availability]
                relayed == relay_message(job_data, tracker.peer_views, validator, msg)
            IN /\ Handled(DistributeBitfieldEvent(hash, signed_availability),
                          [tracker EXCEPT !.per_relay_parent =
                             Insert(tracker.per_relay_parent, hash, relayed.job_data)],
                          relayed.out)
               /\ Logged(relayed.out)
               /\ UNCHANGED pc

\* NetworkBridgeEvent::PeerConnected(peerid, _role)
PeerConnected(peerid) ==
  /\ pc = "running" /\ Quiet
  /\ Handled([kind |-> "PeerConnected", peer |-> peerid],
             [tracker EXCEPT !.peer_views =
                IF peerid \in DOMAIN tracker.peer_views
                THEN tracker.peer_views
                ELSE Insert(tracker.peer_views, peerid, {})], << >>)
  /\ UNCHANGED << pc, sent_log, delivered >>

\* PeerDisconnected as it would be if it pruned the sent-sets of the peer
PeerDisconnected_pruning(peerid) ==
  /\ pc = "running" /\ Quiet
  /\ Handled([kind |-> "PeerDisconnected", peer |-> peerid],
             [tracker EXCEPT
                !.peer_views = Remove(tracker.peer_views, peerid),
                !.per_relay_parent =
                  [h \in DOMAIN tracker.per_relay_parent |->
                     [tracker.per_relay_parent[h] EXCEPT
                        !.message_sent_to_peer = Remove(@, peerid)]]], << >>)
  /\ UNCHANGED << pc, sent_log, delivered >>

\* NetworkBridgeEvent::PeerDisconnected(peerid)
PeerDisconnected(peerid) ==
  /\ pc = "running" /\ Quiet
  /\ Handled([kind |-> "PeerDisconnected", peer |-> peerid],
             [tracker EXCEPT !.peer_views = Remove(tracker.peer_views, peerid)], << >>)
  /\ UNCHANGED << pc, sent_log, delivered >>

\* the entries the filter of catch_up_messages yields before they are
\* collected into delta_set: a relay parent of the delta and a validator whose
\* message the peer needs
CatchUpCandidates(tr, origin, view) ==
  LET current == IF origin \in DOMAIN tr.peer_views THEN tr.peer_views[origin] ELSE {}
      delta == ViewDelta(current, view)
  IN {c \in Hashes \X ValidatorIds : c[1] \in CatchUpSources(tr, origin, delta, c[2])}

\* NetworkBridgeEvent::PeerViewChange(peerid, view); the event keeps the
\* number of entries that were collected into delta_set
PeerViewChange(peerid, view) ==
  /\ pc = "running" /\ Quiet
  /\ \E outcome \in CatchUpOutcomes(tracker, peerid, view) :
       /\ Handled([kind |-> "PeerViewChange", peer |-> peerid, view |-> view,
                   candidates |-> Cardinality(CatchUpCandidates(tracker, peerid, view))],
                  outcome.tracker, outcome.out)
       /\ Logged(outcome.out)
  /\ UNCHANGED pc

\* NetworkBridgeEvent::OurViewChange(view)
OurViewChange(view) ==
  /\ pc = "running" /\ Quiet
  /\ Handled([kind |-> "OurViewChange", view |-> view],
             [tracker EXCEPT !.view = view], << >>)
  /\ UNCHANGED << pc, sent_log, delivered >>

\* the event before this one was PeerMessage(remote, bytes) and it handed a
\* bitfield to the provisioner
AcceptedJustBefore(remote, bytes) ==
  /\ event.kind = "PeerMessage"
  /\ event.peer = remote
  /\ event.bytes = bytes
  /\ DeliveriesIn(out) # {}

\* handle_peer_message as it would be if a message for a relay parent outside
\* per_relay_parent were ignored without a report
handle_peer_message_ignoring(tr, remote, bytes) ==
  LET gossiped_bitfield == Decode(bytes)
  IN IF gossiped_bitfield = NoMessage
     THEN [tracker |-> tr, out |-> modify_reputation(remote, COST_MESSAGE_NOT_DECODABLE)]
     ELSE IF /\ gossiped_bitfield.relay_parent \in tr.view
             /\ gossiped_bitfield.relay_parent \notin DOMAIN tr.per_relay_parent
     THEN [tracker |-> tr, out |-> << >>]
     ELSE process_incoming_peer_message(tr, remote, gossiped_bitfield)

\* handle_peer_message as it would be if the lookup in one_per_validator came
\* before the signature check
handle_peer_message_lookup_first(tr, remote, bytes) ==
  LET gossiped_bitfield == Decode(bytes)
  IN IF gossiped_bitfield = NoMessage
     THEN [tracker |-> tr, out |-> modify_reputation(remote, COST_MESSAGE_NOT_DECODABLE)]
     ELSE IF /\ gossiped_bitfield.relay_parent \in tr.view
             /\ gossiped_bitfield.relay_parent \in DOMAIN tr.per_relay_parent
             /\ LET job_data == tr.per_relay_parent[gossiped_bitfield.relay_parent]
                    validator == validator_at(job_data.validator_set,
                                   validator_index(gossiped_bitfield.signed_availability))
                IN validator # NoValidator /\ already_received(job_data, validator)
     THEN [tracker |-> tr, out |-> << >>]
     ELSE process_incoming_peer_message(tr, remote, gossiped_bitfield)

\* handle_peer_message as it would be if a peer that is reported a cost were
\* dropped from peer_views
handle_peer_message_dropping(tr, remote, bytes) ==
  LET gossiped_bitfield == Decode(bytes)
      result == IF gossiped_bitfield # NoMessage
                THEN process_incoming_peer_message(tr, remote, gossiped_bitfield)
                ELSE [tracker |-> tr,
                      out |-> modify_reputation(remote, COST_MESSAGE_NOT_DECODABLE)]
  IN IF Len(result.out) = 1 /\ result.out[1].kind = "ReportPeer"
     THEN [tracker |-> [result.tracker EXCEPT !.peer_views = Remove(@, remote)],
           out |-> result.out]
     ELSE result

\* handle_peer_message as it would be if undecodable input were only dropped
handle_peer_message_silent(tr, remote, bytes) ==
  LET gossiped_bitfield == Decode(bytes)
  IN IF gossiped_bitfield # NoMessage
     THEN process_incoming_peer_message(tr, remote, gossiped_bitfield)
     ELSE [tracker |-> tr, out |-> << >>]

\* handle_network_msg for NetworkBridgeEvent::PeerMessage(remote, bytes)
handle_peer_message(tr, remote, bytes) ==
  LET gossiped_bitfield == Decode(bytes)
  IN IF gossiped_bitfield # NoMessage
     THEN process_incoming_peer_message(tr, remote, gossiped_bitfield)
     ELSE [tracker |-> tr, out |-> modify_reputation(remote, COST_MESSAGE_NOT_DECODABLE)]

\* NetworkBridgeEvent::PeerMessage(remote, bytes)
PeerMessage(remote, bytes) ==
  /\ pc = "running"
  /\ Quiet \/ AcceptedJustBefore(remote, bytes)
  /\ LET result == handle_peer_message(tracker, remote, bytes)
     IN /\ Handled([kind |-> "PeerMessage", peer |-> remote, bytes |-> bytes,
                     again |-> AcceptedJustBefore(remote, bytes)],
                    result.tracker, result.out)
        /\ Logged(result.out)
  /\ UNCHANGED pc

Next ==
  \/ Recv
  \/ \E h \in Hashes : StartWork(h)
  \/ \E h \in Hashes : StopWork(h)
  \/ Conclude
  \/ \E h \in Hashes, index \in Indices, payload \in Payloads :
       DistributeBitfield(h, LocalSigned(h, index, payload))
  \/ \E p \in PeerIds : PeerConnected(p)
  \/ \E p \in PeerIds : PeerDisconnected(p)
  \/ \E p \in PeerIds, view \in Views : PeerViewChange(p, view)
  \/ \E view \in Views : OurViewChange(view)
  \/ \E p \in PeerIds, bytes \in WireBytes : PeerMessage(p, bytes)

Spec == Init /\ [][Next]_vars

(***************************************************************************)
(* The bus can fail: ctx.recv() and every ctx.send_message can return an   *)
(* error.  The actions below are the handlers of run with one or more of   *)
(* their sends refused; the positions refused are those of the sequence of *)
(* messages the handler emits when no send fails, and out keeps the        *)
(* messages the bus took.                                                  *)
(***************************************************************************)
\* the messages of o at the positions outside refused, in order
Taken(o, refused) ==
  LET taken[i \in 0..Len(o)] ==
        IF i = 0 THEN << >>
        ELSE IF i \in refused THEN taken[i - 1]
        ELSE Append(taken[i - 1], o[i])
  IN taken[Len(o)]

\* the sets of positions of o that can be refused: any, but not none
Refusals(o) == SUBSET (DOMAIN o) \ {{}}

\* the positions refused while the event was handled
Refused(e) == IF "refused" \in DOMAIN e THEN e.refused ELSE {}

\* run_returns_error as it would be if every error were returned with ?
run_returns_error_always(kind, refused) == refused # {}

\* does run return the error of the sends refused while it handles an event
\* of the kind: the registration and query_basics are awaited with ?, and so
\* is relay_message in the DistributeBitfield arm, which ignores the result
\* of its first send (the provisioner) and returns that of its second (the
\* SendMessage); the error of handle_network_msg is logged
run_returns_error(kind, refused) ==
  CASE kind = "Startup" -> refused # {}
    [] kind = "StartWork" -> refused # {}
    [] kind = "DistributeBitfield" -> 2 \in refused
    [] OTHER -> FALSE

\* where run is after an event of the kind with these sends refused
AfterRefusal(kind, refused) ==
  IF run_returns_error(kind, refused) THEN "failed" ELSE "running"

RegistrationRefused == [kind |-> "Startup", refused |-> {1}]

\* the start of run, with the registration taken or refused
InitBus ==
  \/ Init
  \/ /\ validators_at = Chain
     /\ tracker = TrackerDefault
     /\ pc = AfterRefusal("Startup", {1})
     /\ out = << >>
     /\ sent_log = {}
     /\ delivered = {}
     /\ event = RegistrationRefused

RecvError == [kind |-> "RecvError"]

\* ctx.recv() returns an error
RecvRefused ==
  /\ pc = "running" /\ Quiet
  /\ pc' = "failed"
  /\ Handled(RecvError, tracker, << >>)
  /\ UNCHANGED << sent_log, delivered >>

\* StartWork with send_messages refusing the first or the second request of
\* query_basics: nothing is inserted
StartWorkRefused(relay_parent, refused) ==
  /\ pc = "running" /\ Quiet
  /\ refused \in {{1}, {2}}
  /\ Handled([kind |-> "StartWork", relay_parent |-> relay_parent, refused |-> refused],
             tracker,
             IF refused = {1} THEN << >> ELSE << Head(query_basics(relay_parent).out) >>)
  /\ pc' = AfterRefusal("StartWork", refused)
  /\ UNCHANGED << sent_log, delivered >>

\* DistributeBitfield with sends of relay_message refused
DistributeBitfieldRefused(hash, signed_availability, refused) ==
  /\ pc = "running" /\ Quiet
  /\ hash \in DOMAIN tracker.per_relay_parent
  /\ LET job_data == tracker.per_relay_parent[hash]
         validator == validator_at(job_data.validator_set,
                                   validator_index(signed_availability))
         msg == [relay_parent |-> hash, signed_availability |-> signed_availability]
         relayed == relay_message(job_data, tracker.peer_views, validator, msg)
     IN /\ validator # NoValidator
        /\ refused \in Refusals(relayed.out)
        /\ Handled([kind |-> "DistributeBitfield", hash |-> hash,
                     signed_availability |-> signed_availability, refused |-> refused],
                    [tracker EXCEPT !.per_relay_parent =
                       Insert(tracker.per_relay_parent, hash, relayed.job_data)],
                    Taken(relayed.out, refused))
        /\ Logged(Taken(relayed.out, refused))
        /\ pc' = AfterRefusal("DistributeBitfield", refused)

\* the outcomes of catch_up_messages when the k-th send is refused: the
\* message is tracked, the error ends the loop
CatchUpRefusedOutcomes(tr, origin, view) ==
  LET current == IF origin \in DOMAIN tr.peer_views THEN tr.peer_views[origin] ELSE {}
      delta == ViewDelta(current, view)
      replaced == [tr EXCEPT !.peer_views = Insert(tr.peer_views, origin, view)]
      validators == {v \in ValidatorIds : CatchUpSources(tr, origin, delta, v) # {}}
      Upto(source, order, k) ==
        SendAll(replaced, origin,
                [v \in validators |-> tr.per_relay_parent[source[v]].one_per_validator[v]],
                SubSeq(order, 1, k))
  IN { [tracker |-> Upto(source, order, k).tracker,
        out |-> SubSeq(Upto(source, order, k).out, 1, k - 1),
        refused |-> {k}] :
         source \in {f \in [validators -> Hashes] :
                       \A v \in validators : f[v] \in CatchUpSources(tr, origin, delta, v)},
         order \in Orders(validators),
         k \in 1..Cardinality(validators) }

\* PeerViewChange with a send of catch_up_messages refused
PeerViewChangeRefused(peerid, view) ==
  /\ pc = "running" /\ Quiet
  /\ \E outcome \in CatchUpRefusedOutcomes(tracker, peerid, view) :
       /\ Handled([kind |-> "PeerViewChange", peer |-> peerid, view |-> view,
                    candidates |-> Cardinality(CatchUpCandidates(tracker, peerid, view)),
                    refused |-> outcome.refused],
                   outcome.tracker, outcome.out)
       /\ Logged(outcome.out)
       /\ pc' = AfterRefusal("PeerViewChange", outcome.refused)

\* PeerMessage with sends refused: process_incoming_peer_message ignores the
\* result of relay_message and returns that of modify_reputation
PeerMessageRefused(remote, bytes, refused) ==
  /\ pc = "running" /\ Quiet
  /\ LET result == handle_peer_message(tracker, remote, bytes)
     IN /\ refused \in Refusals(result.out)
        /\ Handled([kind |-> "PeerMessage", peer |-> remote, bytes |-> bytes,
                     again |-> FALSE, refused |-> refused],
                    result.tracker, Taken(result.out, refused))
        /\ Logged(Taken(result.out, refused))
        /\ pc' = AfterRefusal("PeerMessage", refused)

\* the runs with a failing bus are those of one relay parent and one peer,
\* with local bitfields of one payload
BusHashes == {"H0"}
BusPeerIds == {"P1"}
BusViews == SUBSET BusHashes

\* what the peer sends in them: a valid bitfield of each validator, one that
\* does not verify, and input that does not decode
BusWireBytes ==
  {Encode([relay_parent |-> "H0", signed_availability |-> Signed(i, 0, k, "H0")]) :
     i \in {0, 1}, k \in {"V0", "V1"}}
  \cup {<< >>}

NextBus ==
  \/ Recv
  \/ RecvRefused
  \/ \E h \in BusHashes : StartWork(h)
  \/ \E h \in BusHashes, refused \in {{1}, {2}} : StartWorkRefused(h, refused)
  \/ \E h \in BusHashes : StopWork(h)
  \/ Conclude
  \/ \E h \in BusHashes, index \in Indices :
       DistributeBitfield(h, LocalSigned(h, index, 0))
  \/ \E h \in BusHashes, index \in Indices, refused \in SUBSET (1..2) :
       DistributeBitfieldRefused(h, LocalSigned(h, index, 0), refused)
  \/ \E p \in BusPeerIds : PeerConnected(p)
  \/ \E p \in BusPeerIds : PeerDisconnected(p)
  \/ \E p \in BusPeerIds, view \in BusViews : PeerViewChange(p, view)
  \/ \E p \in BusPeerIds, view \in BusViews : PeerViewChangeRefused(p, view)
  \/ \E view \in BusViews : OurViewChange(view)
  \/ \E p \in BusPeerIds, bytes \in BusWireBytes : PeerMessage(p, bytes)
  \/ \E p \in BusPeerIds, bytes \in BusWireBytes, refused \in SUBSET (1..3) :
       PeerMessageRefused(p, bytes, refused)

SpecBus == InitBus /\ [][NextBus]_vars

(***************************************************************************)
(* Gossip alone.  The runs below have no DistributeBitfield: every bitfield *)
(* comes from a peer.  Both relay parents have validators, so a validator   *)
(* can have a message stored under each of them.                            *)
(***************************************************************************)
\* the validator set at each relay parent in these runs
GossipChain == [h \in Hashes |-> IF h = "H0" THEN <<"V0", "V1">> ELSE <<"V1", "V0">>]

InitGossip ==
  /\ validators_at = GossipChain
  /\ tracker = TrackerDefault
  /\ pc = "running"
  /\ out = << RegisterEventProducer(PROTOCOL_ID) >>
  /\ sent_log = {}
  /\ delivered = {}
  /\ event = Startup

\* what the peers send in them: the bitfield of each validator for each relay
\* parent, and input that does not decode
GossipWireBytes ==
  {Encode([relay_parent |-> h,
           signed_availability |-> Signed(i, 0, GossipChain[h][i + 1], h)]) :
     h \in Hashes, i \in {0, 1}}
  \cup {<< >>}

NextGossip ==
  \/ Recv
  \/ \E h \in Hashes : StartWork(h)
  \/ \E h \in Hashes : StopWork(h)
  \/ Conclude
  \/ \E p \in PeerIds : PeerConnected(p)
  \/ \E p \in PeerIds : PeerDisconnected(p)
  \/ \E p \in PeerIds, view \in Views : PeerViewChange(p, view)
  \/ \E view \in Views : OurViewChange(view)
  \/ \E p \in PeerIds, bytes \in GossipWireBytes : PeerMessage(p, bytes)

SpecGossip == InitGossip /\ [][NextGossip]_vars

(***************************************************************************)
(* Properties.                                                             *)
(***************************************************************************)
RelayParentOf(x) == Decode(x.bytes).relay_parent
SignerOf(x) == Decode(x.bytes).signed_availability.signer

\* C1: interest-only delivery: every peer named by a SendMessage of the last
\* event has the relay parent of the message in its view (peer_views as it
\* is when the send is emitted: no handler changes it after its first send).
InterestOnlyDelivery ==
  \A x \in SendsIn(out) : \A p \in x.peers :
    /\ p \in DOMAIN tracker.peer_views
    /\ RelayParentOf(x) \in tracker.peer_views[p]

\* C2: per-peer, per-validator de-duplication: no SendMessage names a peer to
\* which a bitfield of the same validator for the same relay parent has been
\* sent before, and no two sends of one event do.  (sent_log holds the sends
\* since the relay parent was started: a send it repeats is a repeated send.)
NoRepeatedSend ==
  [][ /\ \A t \in SendTriples(out') : t \notin sent_log
      /\ \A i, j \in DOMAIN out' :
           (i < j /\ out'[i].kind = "SendMessage" /\ out'[j].kind = "SendMessage")
             => TriplesOf(out'[i]) \cap TriplesOf(out'[j]) = {}
    ]_vars

\* C3: at most one bitfield per validator per relay parent is accepted while
\* a per_relay_parent entry exists: no event hands to the provisioner (and
\* fans out: relay_message does both) a bitfield of a validator for a relay
\* parent that was handed over before, local and remote bitfields together.
AtMostOneAccepted ==
  [][ \A d \in DeliveryPairs(out') : d \notin delivered ]_vars

\* C4: stored bitfields are valid: a message stored in one_per_validator[rp][v]
\* names rp, its validator index is within the validator set of rp and
\* resolves to v, and its signature verifies against the signing context of
\* rp and v.
StoredBitfieldsValid ==
  \A rp \in DOMAIN tracker.per_relay_parent :
    LET job_data == tracker.per_relay_parent[rp]
    IN \A v \in DOMAIN job_data.one_per_validator :
         LET m == job_data.one_per_validator[v]
             index == m.signed_availability.validator_index
         IN /\ m.relay_parent = rp
            /\ index < Len(job_data.validator_set)
            /\ job_data.validator_set[index + 1] = v
            /\ m.signed_availability.signer = v
            /\ m.signed_availability.signed_ctx = job_data.signing_context

\* C4 happens: two validators have a bitfield stored for a relay parent
StoredBitfieldsWitness ==
  \E rp \in DOMAIN tracker.per_relay_parent :
    Cardinality(DOMAIN tracker.per_relay_parent[rp].one_per_validator) = 2

\* the ReportPeer messages of o, in order
ReportSeq(o) == SelectSeq(o, LAMBDA x : x.kind = "ReportPeer")

\* C5: a PeerMessage whose handling hands a bitfield to the provisioner emits
\* exactly one ReportPeer, for its origin, with GAIN_VALID_MESSAGE (+5).
AcceptanceRewarded ==
  [][ (event'.kind = "PeerMessage" /\ DeliveriesIn(out') # {})
        => /\ ReportSeq(out') = << ReportPeer(event'.peer, GAIN_VALID_MESSAGE) >>
           /\ GAIN_VALID_MESSAGE.value = 5
    ]_vars

\* C5 happens: the last event handed a bitfield over and reported a peer
AcceptanceWitness ==
  /\ event.kind = "PeerMessage"
  /\ DeliveriesIn(out) # {}

\* the decision ladder of the inbound message validator: the first check
\* that the message fails in the tracker tr, or "accept"
LadderStep(tr, bytes) ==
  LET m == Decode(bytes)
  IN IF m = NoMessage THEN "decode"
     ELSE IF m.relay_parent \notin tr.view THEN "view"
     ELSE IF m.relay_parent \notin DOMAIN tr.per_relay_parent THEN "workset"
     ELSE
       LET job_data == tr.per_relay_parent[m.relay_parent]
           index == m.signed_availability.validator_index
       IN IF job_data.validator_set = << >> THEN "keys"
          ELSE IF index >= Len(job_data.validator_set) THEN "index"
          ELSE IF ~check_signature(m.signed_availability, job_data.signing_context,
                                   job_data.validator_set[index + 1])
          THEN "signature"
          ELSE IF job_data.validator_set[index + 1] \in DOMAIN job_data.one_per_validator
          THEN "duplicate"
          ELSE "accept"

\* the cost the table of the validator lists for a failed check
LadderCost(step) ==
  CASE step = "decode" -> COST_MESSAGE_NOT_DECODABLE
    [] step = "view" -> COST_NOT_INTERESTED
    [] step = "workset" -> COST_NOT_INTERESTED
    [] step = "keys" -> COST_MISSING_PEER_SESSION_KEY
    [] step = "index" -> COST_VALIDATOR_INDEX_INVALID
    [] step = "signature" -> COST_SIGNATURE_INVALID

CostedSteps == {"decode", "view", "workset", "keys", "index", "signature"}

\* C6 as stated: a PeerMessage rejected at any step of the ladder, the
\* duplicate step included, emits exactly one ReportPeer for its origin with
\* a negative delta, the cost of the step where the table lists one.
RejectionReported ==
  [][ event'.kind = "PeerMessage" =>
        LET step == LadderStep(tracker, event'.bytes)
        IN step # "accept"
             => /\ Len(ReportSeq(out')) = 1
                /\ ReportSeq(out')[1].peer = event'.peer
                /\ ReportSeq(out')[1].rep.value < 0
                /\ step \in CostedSteps => ReportSeq(out')[1].rep = LadderCost(step)
    ]_vars

\* C6 as amended: a PeerMessage rejected at one of the six checks that have a
\* cost emits exactly one ReportPeer, for its origin, with that cost, which is
\* negative; a message of a validator already in one_per_validator emits no
\* ReportPeer.
RejectionReportedUnlessDuplicate ==
  [][ event'.kind = "PeerMessage" =>
        LET step == LadderStep(tracker, event'.bytes)
        IN /\ step \in CostedSteps =>
                /\ ReportSeq(out') = << ReportPeer(event'.peer, LadderCost(step)) >>
                /\ LadderCost(step).value < 0
           /\ step = "duplicate" => ReportSeq(out') = << >>
    ]_vars

\* C6 happens: the last event was a PeerMessage with an invalid signature,
\* and its origin was reported
RejectionWitness ==
  /\ event.kind = "PeerMessage"
  /\ out = << ReportPeer(event.peer, COST_SIGNATURE_INVALID) >>

\* C7 as stated: the second delivery of a PeerMessage that was just accepted
\* hands nothing to the provisioner and is rewarded again: one delivery and
\* two positive reports over the two.
RedeliveryRewarded ==
  [][ (event'.kind = "PeerMessage" /\ event'.again)
        => /\ DeliveriesIn(out') = {}
           /\ ReportSeq(out') = << ReportPeer(event'.peer, GAIN_VALID_MESSAGE) >>
    ]_vars

\* C7 as amended: the second delivery of a PeerMessage that was just accepted
\* emits nothing and changes nothing: one delivery and one positive report
\* over the two.
RedeliveryDropped ==
  [][ (event'.kind = "PeerMessage" /\ event'.again)
        => /\ out' = << >>
           /\ tracker' = tracker
           /\ Cardinality(DeliveriesIn(out)) = 1
           /\ ReportSeq(out) = << ReportPeer(event'.peer, GAIN_VALID_MESSAGE) >>
    ]_vars

\* C7 happens: an accepted PeerMessage was delivered a second time
RedeliveryWitness ==
  /\ event.kind = "PeerMessage"
  /\ event.again

\* C8: catch-up on gained interest: when PeerViewChange(p, view) adds a
\* relay parent of per_relay_parent to the view of p, every bitfield accepted
\* for it and not yet sent to p is sent to p alone and recorded as sent, and
\* the view of p is replaced.
CatchUpOnGainedInterest ==
  [][ event'.kind = "PeerViewChange" =>
          LET p == event'.peer
              view == event'.view
              previous == IF p \in DOMAIN tracker.peer_views
                          THEN tracker.peer_views[p] ELSE {}
              gained == (view \ previous) \cap DOMAIN tracker.per_relay_parent
          IN /\ p \in DOMAIN tracker'.peer_views
             /\ tracker'.peer_views[p] = view
             /\ \A d \in delivered :
                  (d[1] \in gained /\ <<p, d[1], d[2]>> \notin sent_log) =>
                    /\ \E x \in SendsIn(out') :
                         /\ x.peers = {p}
                         /\ x.protocol = PROTOCOL_ID
                         /\ RelayParentOf(x) = d[1]
                         /\ SignerOf(x) = d[2]
                    /\ d[1] \in DOMAIN tracker'.per_relay_parent
                    /\ LET sent == tracker'.per_relay_parent[d[1]].message_sent_to_peer
                       IN p \in DOMAIN sent /\ d[2] \in sent[p]
    ]_vars

PeerViewsAreConnectedPeers ==
  [][ \A p \in PeerIds :
        /\ event' = [kind |-> "PeerConnected", peer |-> p]
             => p \in DOMAIN tracker'.peer_views
        /\ event' = [kind |-> "PeerDisconnected", peer |-> p]
             => p \notin DOMAIN tracker'.peer_views
        /\ (p \in DOMAIN tracker'.peer_views) # (p \in DOMAIN tracker.peer_views)
             => \/ event' = [kind |-> "PeerConnected", peer |-> p]
                \/ event' = [kind |-> "PeerDisconnected", peer |-> p]
    ]_vars

(***************************************************************************)
(* The work set, the order of the emissions and the sent-sets.             *)
(***************************************************************************)
StartWorkEvent(h) == [kind |-> "StartWork", relay_parent |-> h]
StopWorkEvent(h) == [kind |-> "StopWork", relay_parent |-> h]
ConcludeEvent == [kind |-> "Conclude"]

\* the relay parents of per_relay_parent
WorkSet(tr) == DOMAIN tr.per_relay_parent

\* C11: the key set of per_relay_parent is the set of the relay parents
\* started and neither stopped nor concluded since.  From the empty map of
\* the start that is: StartWork(h) leaves h in it, StopWork(h) leaves h out
\* of it, Conclude leaves it empty, and no other event (DistributeBitfield,
\* a NetworkBridgeUpdate) adds or removes a key.
KeySetFollowsLifecycle ==
  /\ WorkSet(tracker) = {}
  /\ [][ /\ \A h \in Hashes :
            /\ (event' = StartWorkEvent(h) => h \in WorkSet(tracker'))
            /\ (event' = StopWorkEvent(h) => h \notin WorkSet(tracker'))
            /\ ((h \in WorkSet(tracker')) # (h \in WorkSet(tracker))
                  => event' \in {StartWorkEvent(h), StopWorkEvent(h), ConcludeEvent})
         /\ (event' = ConcludeEvent => WorkSet(tracker') = {})
       ]_vars

\* C11 happens: a relay parent was stopped while another stays in the map
KeySetWitness ==
  /\ event.kind = "StopWork"
  /\ WorkSet(tracker) # {}
  /\ event.relay_parent \notin WorkSet(tracker)

\* C12: DistributeBitfield for a relay parent that is not in per_relay_parent
\* does not crash run: the Tracker is unchanged, nothing is handed to the
\* provisioner or sent, and run goes on with the next event.
UnknownParentTolerated ==
  [][ (event'.kind = "DistributeBitfield" /\ event'.hash \notin WorkSet(tracker))
        => /\ pc' = "running"
           /\ tracker' = tracker
           /\ DeliveriesIn(out') = {}
           /\ SendsIn(out') = {}
    ]_vars

\* the positions of o that hold a message of the kind
PositionsOf(o, kind) == {i \in DOMAIN o : o[i].kind = kind}

\* C13: the order of the emissions of one event: every event that hands a
\* bitfield to the provisioner does so before its SendMessage, and the
\* ReportPeer of an accepted PeerMessage follows both as the last output.
EmissionOrder ==
  [][ DeliveriesIn(out') # {} =>
        /\ \A i \in PositionsOf(out', "Bitfield"), j \in PositionsOf(out', "SendMessage") :
             i < j
        /\ PositionsOf(out', "SendMessage") # {}
        /\ event'.kind = "PeerMessage" =>
             /\ PositionsOf(out', "ReportPeer") = {Len(out')}
             /\ \A i \in PositionsOf(out', "Bitfield") \cup PositionsOf(out', "SendMessage") :
                  i < Len(out')
    ]_vars

\* C13 happens: a PeerMessage was accepted and fanned out to a peer
EmissionOrderWitness ==
  /\ event.kind = "PeerMessage"
  /\ DeliveriesIn(out) # {}
  /\ \E x \in SendsIn(out) : x.peers # {}

\* C14: sent-set soundness: between events, a validator in
\* message_sent_to_peer[p] of a relay parent was sent to p in a SendMessage
\* for that relay parent since its per_relay_parent entry was created.
SentSetSound ==
  Quiet =>
    \A h \in WorkSet(tracker) :
      LET sent == tracker.per_relay_parent[h].message_sent_to_peer
      IN \A p \in DOMAIN sent : \A v \in sent[p] : <<p, h, v>> \in sent_log

\* C14 happens: between events, a sent-set filled by a fan-out and by a
\* catch-up send
SentSetWitness ==
  /\ Quiet
  /\ \E h \in WorkSet(tracker) :
       \E p \in DOMAIN tracker.per_relay_parent[h].message_sent_to_peer :
         Cardinality(tracker.per_relay_parent[h].message_sent_to_peer[p]) = 2

(***************************************************************************)
(* The checks on a message of a peer, and the fan-out.                     *)
(***************************************************************************)
\* C16: a relay parent outside per_relay_parent (stopped and not started
\* again) is one we are not interested in: a PeerMessage for it is answered
\* with COST_NOT_INTERESTED (-51) and nothing else, also when it is in our
\* view; no event but its StartWork emits a SendMessage (a catch-up send
\* included) or a provisioner delivery for it.
StoppedParentNotInterested ==
  [][ \A h \in Hashes :
        (h \notin WorkSet(tracker) /\ event' # StartWorkEvent(h)) =>
          /\ (/\ event'.kind = "PeerMessage"
              /\ Decode(event'.bytes) # NoMessage
              /\ Decode(event'.bytes).relay_parent = h)
               => /\ out' = << ReportPeer(event'.peer, COST_NOT_INTERESTED) >>
                  /\ COST_NOT_INTERESTED.value = -51
          /\ \A x \in SendsIn(out') : RelayParentOf(x) # h
          /\ \A x \in DeliveriesIn(out') : x.relay_parent # h
    ]_vars

\* C16 happens: a PeerMessage for a relay parent of our view that is not in
\* per_relay_parent was answered
StoppedParentWitness ==
  /\ event.kind = "PeerMessage"
  /\ Decode(event.bytes) # NoMessage
  /\ Decode(event.bytes).relay_parent \in tracker.view
  /\ Decode(event.bytes).relay_parent \notin WorkSet(tracker)
  /\ out # << >>

\* C17: the first failing check decides: undecodable input is reported as
\* such; a relay parent outside our view or outside per_relay_parent costs
\* -51 whatever the index and the signature; an empty validator set costs
\* -133 whatever the index; an index out of range costs
\* COST_VALIDATOR_INDEX_INVALID whatever the signature; a signature that does
\* not verify costs COST_SIGNATURE_INVALID, also for a validator already in
\* one_per_validator.
LadderPrecedence ==
  [][ event'.kind = "PeerMessage" =>
        LET m == Decode(event'.bytes)
            Reported(cost) == out' = << ReportPeer(event'.peer, cost) >>
        IN IF m = NoMessage THEN Reported(COST_MESSAGE_NOT_DECODABLE)
           ELSE
             LET h == m.relay_parent
                 index == m.signed_availability.validator_index
                 known == h \in tracker.view /\ h \in WorkSet(tracker)
                 validator_set == tracker.per_relay_parent[h].validator_set
                 signing_context == tracker.per_relay_parent[h].signing_context
             IN /\ h \notin tracker.view => Reported(COST_NOT_INTERESTED)
                /\ h \notin WorkSet(tracker) => Reported(COST_NOT_INTERESTED)
                /\ (known /\ validator_set = << >>)
                     => Reported(COST_MISSING_PEER_SESSION_KEY)
                /\ (known /\ validator_set # << >> /\ index >= Len(validator_set))
                     => Reported(COST_VALIDATOR_INDEX_INVALID)
                /\ (/\ known
                    /\ index < Len(validator_set)
                    /\ ~check_signature(m.signed_availability, signing_context,
                                        validator_set[index + 1]))
                     => Reported(COST_SIGNATURE_INVALID)
                /\ COST_NOT_INTERESTED.value = -51
                /\ COST_MISSING_PEER_SESSION_KEY.value = -133
    ]_vars

\* C17 happens: a signature that does not verify, for a validator already in
\* one_per_validator, was reported
LadderPrecedenceWitness ==
  /\ event.kind = "PeerMessage"
  /\ out = << ReportPeer(event.peer, COST_SIGNATURE_INVALID) >>
  /\ LET m == Decode(event.bytes)
         job_data == tracker.per_relay_parent[m.relay_parent]
     IN job_data.validator_set[m.signed_availability.validator_index + 1]
          \in DOMAIN job_data.one_per_validator

\* C18: a PeerMessage that is reported a cost has no other effect: the
\* Tracker is unchanged, the report is the only emission, and the same
\* message delivered again in the state it leaves is reported the same way.
RejectionHasNoOtherEffect ==
  [][ (/\ event'.kind = "PeerMessage"
       /\ ReportSeq(out') # << >>
       /\ ReportSeq(out')[1].rep.value < 0)
        => /\ tracker' = tracker
           /\ Len(out') = 1
           /\ DeliveriesIn(out') = {}
           /\ SendsIn(out') = {}
           /\ handle_peer_message(tracker', event'.peer, event'.bytes).out = out'
    ]_vars

\* C18 happens: a PeerMessage was reported a cost while the Tracker holds a
\* peer, a stored bitfield and a sent-set
RejectionNoEffectWitness ==
  /\ event.kind = "PeerMessage"
  /\ Len(out) = 1
  /\ out[1].kind = "ReportPeer"
  /\ out[1].rep.value < 0
  /\ event.peer \in DOMAIN tracker.peer_views
  /\ \E h \in WorkSet(tracker) :
       /\ DOMAIN tracker.per_relay_parent[h].one_per_validator # {}
       /\ DOMAIN tracker.per_relay_parent[h].message_sent_to_peer # {}

\* C19: first seen wins, silently: a PeerMessage that passes every check and
\* resolves to a validator already in one_per_validator emits nothing and
\* changes nothing, whatever bitfield it carries; and a stored message stays
\* as it is through every event but the StartWork, StopWork and Conclude
\* that end its per_relay_parent entry.
FirstSeenWins ==
  [][ /\ (event'.kind = "PeerMessage" /\ LadderStep(tracker, event'.bytes) = "duplicate")
           => /\ out' = << >>
              /\ tracker' = tracker
      /\ \A h \in WorkSet(tracker) :
           event' \notin {StartWorkEvent(h), StopWorkEvent(h), ConcludeEvent}
             => /\ h \in WorkSet(tracker')
                /\ \A v \in DOMAIN tracker.per_relay_parent[h].one_per_validator :
                     /\ v \in DOMAIN tracker'.per_relay_parent[h].one_per_validator
                     /\ tracker'.per_relay_parent[h].one_per_validator[v]
                          = tracker.per_relay_parent[h].one_per_validator[v]
    ]_vars

\* C19 happens: a valid PeerMessage with another bitfield than the stored
\* one of its validator was dropped
FirstSeenWinsWitness ==
  /\ event.kind = "PeerMessage"
  /\ out = << >>
  /\ LadderStep(tracker, event.bytes) = "duplicate"
  /\ LET m == Decode(event.bytes)
     IN m # tracker.per_relay_parent[m.relay_parent].one_per_validator[m.signed_availability.signer]

\* C20: the fan-out is exact: an event that calls relay_message (it hands one
\* bitfield to the provisioner) emits exactly one SendMessage, to exactly
\* the peers whose view holds the relay parent, and adds the validator to
\* the sent-sets of exactly those peers; the other sent-sets, the other
\* relay parents, peer_views and view stay as they are.
FanOutExact ==
  [][ DeliveriesIn(out') # {} =>
        LET d == CHOOSE x \in DeliveriesIn(out') : TRUE
            h == d.relay_parent
            m == [relay_parent |-> h, signed_availability |-> d.signed]
            v == tracker.per_relay_parent[h].validator_set[d.signed.validator_index + 1]
            interested == {p \in DOMAIN tracker.peer_views : h \in tracker.peer_views[p]}
            old == tracker.per_relay_parent[h].message_sent_to_peer
            new == tracker'.per_relay_parent[h].message_sent_to_peer
        IN /\ Cardinality(PositionsOf(out', "Bitfield")) = 1
           /\ Cardinality(PositionsOf(out', "SendMessage")) = 1
           /\ SendsIn(out') = {SendMessage(interested, PROTOCOL_ID, Encode(m))}
           /\ DOMAIN new = DOMAIN old \cup interested
           /\ \A p \in interested :
                new[p] = (IF p \in DOMAIN old THEN old[p] ELSE {}) \cup {v}
           /\ \A p \in DOMAIN old \ interested : new[p] = old[p]
           /\ WorkSet(tracker') = WorkSet(tracker)
           /\ \A g \in WorkSet(tracker) \ {h} :
                tracker'.per_relay_parent[g] = tracker.per_relay_parent[g]
           /\ tracker'.peer_views = tracker.peer_views
           /\ tracker'.view = tracker.view
    ]_vars

\* C20 happens: a fan-out with one peer interested and one not, which has a
\* sent-set of its own
FanOutWitness ==
  /\ DeliveriesIn(out) # {}
  /\ \E x \in SendsIn(out) :
       /\ Cardinality(x.peers) = 1
       /\ \E p \in DOMAIN tracker.peer_views \ x.peers :
            p \in DOMAIN tracker.per_relay_parent[RelayParentOf(x)].message_sent_to_peer

(***************************************************************************)
(* Failures of the bus.                                                    *)
(***************************************************************************)
\* the bus failed while the event was received or handled
BusFailed(e) == e = RecvError \/ Refused(e) # {}

CatchUpSend(tr, p, h, v) ==
  SendMessage({p}, PROTOCOL_ID, Encode(tr.per_relay_parent[h].one_per_validator[v]))

ReconnectKeepsSentSets ==
  [][ /\ (event'.kind = "PeerDisconnected" =>
             /\ DOMAIN tracker'.peer_views = DOMAIN tracker.peer_views \ {event'.peer}
             /\ (\A q \in DOMAIN tracker'.peer_views :
                   tracker'.peer_views[q] = tracker.peer_views[q])
             /\ tracker'.view = tracker.view
             /\ tracker'.per_relay_parent = tracker.per_relay_parent
             /\ out' = << >>)
      /\ (event'.kind = "PeerConnected" =>
             /\ DOMAIN tracker'.peer_views = DOMAIN tracker.peer_views \cup {event'.peer}
             /\ (\A q \in DOMAIN tracker.peer_views :
                   tracker'.peer_views[q] = tracker.peer_views[q])
             /\ (event'.peer \notin DOMAIN tracker.peer_views
                   => tracker'.peer_views[event'.peer] = {})
             /\ tracker'.view = tracker.view
             /\ tracker'.per_relay_parent = tracker.per_relay_parent
             /\ out' = << >>)
      /\ (event'.kind = "PeerViewChange" =>
             \A t \in SendTriples(out') :
               ~ /\ t[2] \in WorkSet(tracker)
                 /\ t[1] \in DOMAIN tracker.per_relay_parent[t[2]].message_sent_to_peer
                 /\ t[3] \in tracker.per_relay_parent[t[2]].message_sent_to_peer[t[1]])
    ]_vars

\* C22 happens: a peer has disconnected and a sent-set of it stays, with a
\* validator whose message is stored
ReconnectWitness ==
  /\ event.kind = "PeerDisconnected"
  /\ event.peer \notin DOMAIN tracker.peer_views
  /\ \E h \in WorkSet(tracker) :
       /\ event.peer \in DOMAIN tracker.per_relay_parent[h].message_sent_to_peer
       /\ \E v \in tracker.per_relay_parent[h].message_sent_to_peer[event.peer] :
            v \in DOMAIN tracker.per_relay_parent[h].one_per_validator

\* C23: de-duplication of remotely originated bitfields within the lifetime
\* of a per_relay_parent entry: in the runs without DistributeBitfield, no
\* SendMessage of an accepted PeerMessage or of a catch-up round names a peer
\* to which a bitfield of the same validator for the same relay parent was
\* sent since the relay parent was started, and no two sends of one event
\* name the same peer for the same validator and relay parent.
GossipNoRepeatedSend ==
  [][ event'.kind \in {"PeerMessage", "PeerViewChange"} =>
        /\ SendTriples(out') \cap sent_log = {}
        /\ (\A i, j \in PositionsOf(out', "SendMessage") :
              i # j => TriplesOf(out'[i]) \cap TriplesOf(out'[j]) = {})
    ]_vars

\* C23 happens: a catch-up round sent a bitfield to a peer that had been
\* sent a bitfield of the other validator for the same relay parent, and the
\* same validator's bitfield for the other relay parent
GossipNoRepeatedSendWitness ==
  /\ event.kind = "PeerViewChange"
  /\ \E t \in SendTriples(out) :
       /\ \E u \in sent_log \ SendTriples(out) : u[1] = t[1] /\ u[2] = t[2] /\ u[3] # t[3]
       /\ \E u \in sent_log \ SendTriples(out) : u[1] = t[1] /\ u[2] # t[2] /\ u[3] = t[3]

====
